---------------------------- MODULE Spec2Model ----------------------------
(***************************************************************************)
(* Lehmer codes of permutations (big_lehmer).                              *)
(*                                                                         *)
(* The module models                                                       *)
(*   - the ranking tree EncodeAS and the selection tree DecodeAS           *)
(*     (src/src/acceleration_structures.rs, src/src/encode.rs,             *)
(*     src/src/decode.rs),                                                 *)
(*   - the accumulator Cache / EncodeCache and the encode and decode       *)
(*     loops of Lehmer::encode_in and Lehmer::decode_in (src/src/lib.rs),  *)
(*   - the split-divide recursion of src/src/decode.rs.                    *)
(*                                                                         *)
(* Machine words are scaled down: TLC's integers are 32 bit, so a u64 is   *)
(* modelled by a word of WordBits bits, a u128 by 2*WordBits bits and a    *)
(* u32 by WordBits \div 2 bits.  The proportions of the source are kept:   *)
(* the product of two u32 fits a u64.                                      *)
(***************************************************************************)
EXTENDS Integers, Sequences, FiniteSets

(***************************************************************************)
(* Bounds of the model.                                                    *)
(***************************************************************************)
\* largest element count of the tree specifications and of the permutations
MaxN == 5

\* scaled-down number of bits of a u64 (DivideType, Cache)
WordBits == 6

\* every sequence over 0 .. n of a length n up to this one is an encode input
MaxInvalidLen == 4

\* the byte strings handed to decode hold the integers up to this one ...
MaxCode == 300

\* ... zero-padded up to this length
MaxCodeLen == 2

\* the root work items of the split-divide start at 2 .. MaxStart,
MaxStart == 3

\* cover up to MaxDivLen divisors
MaxDivLen == 6

\* and have a dividend of at most MaxDividend
MaxDividend == 2500

\* the reduce gets up to MaxChunks chunks
MaxChunks == 3

\* whose add and mul are at most MaxChunkValue
MaxChunkValue == 2

(***************************************************************************)
(* Arithmetic helpers.                                                     *)
(***************************************************************************)
RECURSIVE Pow2Ge(_, _)
Pow2Ge(p, n) == IF p >= n THEN p ELSE Pow2Ge(2 * p, n)

\* usize::next_power_of_two: the smallest power of two >= n (1 for n = 0)
NextPowerOfTwo(n) == Pow2Ge(1, n)

\* u32::trailing_zeros, for i > 0
RECURSIVE TrailingZeros(_)
TrailingZeros(i) == IF i % 2 = 1 THEN 0 ELSE 1 + TrailingZeros(i \div 2)

\* UBig::bit_len: the number of significant bits, 0 for 0
RECURSIVE BitLen(_)
BitLen(n) == IF n = 0 THEN 0 ELSE 1 + BitLen(n \div 2)

RECURSIVE Factorial(_)
Factorial(n) == IF n <= 1 THEN 1 ELSE n * Factorial(n - 1)

\* s * (s+1) * ... * (s+len-1)
RECURSIVE RangeProduct(_, _)
RangeProduct(s, len) == IF len <= 0 THEN 1 ELSE s * RangeProduct(s + 1, len - 1)

\* the wrapped value of 0 - 1 in a u32 (u32::MAX, scaled)
U32Max == 2 ^ (WordBits \div 2) - 1

Range(f) == {f[i] : i \in DOMAIN f}

\* the d-th smallest element of the set S (counting from 0)
NthSmallest(S, d) == CHOOSE x \in S : Cardinality({y \in S : y < x}) = d

(***************************************************************************)
(* EncodeAS: the ranking tree.  tree is a function on 0 .. len-1.          *)
(***************************************************************************)
EncodeASNew(element_count) ==
    [i \in 0 .. NextPowerOfTwo(element_count) - 1 |-> 0]

\* the slot is incremented on both branches
RECURSIVE InsertLoopAlwaysCount(_, _, _, _, _)
InsertLoopAlwaysCount(tree, number, result, node, jump) ==
    LET right == number >= node
        tree2 == [tree EXCEPT ![node] = @ + 1]
        res2  == IF right THEN result - tree[node] ELSE result
        node2 == IF right THEN node + jump ELSE node - jump
    IN  IF jump = 0
        THEN [tree |-> tree2, result |-> res2]
        ELSE InsertLoopAlwaysCount(tree2, number, res2, node2, jump \div 2)

\* the stored counts are never subtracted
RECURSIVE InsertLoopNoSubtract(_, _, _, _, _)
InsertLoopNoSubtract(tree, number, result, node, jump) ==
    LET right == number >= node
        tree2 == IF right THEN tree ELSE [tree EXCEPT ![node] = @ + 1]
        node2 == IF right THEN node + jump ELSE node - jump
    IN  IF jump = 0
        THEN [tree |-> tree2, result |-> result]
        ELSE InsertLoopNoSubtract(tree2, number, result, node2, jump \div 2)

\* the counter is bumped on the way right, not on the way left
RECURSIVE InsertLoopCountRight(_, _, _, _, _)
InsertLoopCountRight(tree, number, result, node, jump) ==
    LET right == number >= node
        tree2 == IF right THEN [tree EXCEPT ![node] = @ + 1] ELSE tree
        res2  == IF right THEN result - tree[node] ELSE result
        node2 == IF right THEN node + jump ELSE node - jump
    IN  IF jump = 0
        THEN [tree |-> tree2, result |-> res2]
        ELSE InsertLoopCountRight(tree2, number, res2, node2, jump \div 2)

\* the loop of EncodeAS::insert
RECURSIVE InsertLoop(_, _, _, _, _)
InsertLoop(tree, number, result, node, jump) ==
    LET right == number >= node
        tree2 == IF right THEN tree ELSE [tree EXCEPT ![node] = @ + 1]
        res2  == IF right THEN result - tree[node] ELSE result
        node2 == IF right THEN node + jump ELSE node - jump
    IN  IF jump = 0
        THEN [tree |-> tree2, result |-> res2]
        ELSE InsertLoop(tree2, number, res2, node2, jump \div 2)

\* EncodeAS::insert: the tree after the call and the returned digit
EncodeASInsert(tree, number) ==
    LET len == Cardinality(DOMAIN tree)
    IN  InsertLoop(tree, number, number, len \div 2, len \div 4)

(***************************************************************************)
(* DecodeAS: the selection tree.                                           *)
(***************************************************************************)
DecodeASNew(element_count) ==
    [i \in 0 .. NextPowerOfTwo(element_count) - 1 |->
        IF i = 0 THEN 1 ELSE 2 ^ TrailingZeros(i)]

\* the way left leaves the counter of the node as it was
RECURSIVE RemoveLoopNoDecrement(_, _, _, _, _)
RemoveLoopNoDecrement(tree, number, left_count, node_id, jump) ==
    LET node == tree[node_id]
    IN  IF number >= node + left_count
        THEN IF jump = 0
             THEN {[tree |-> tree, value |-> node_id + jump, panic |-> FALSE]}
             ELSE RemoveLoopNoDecrement(tree, number, left_count + node,
                                        node_id + jump, jump \div 2)
        ELSE LET id2 == node_id - jump
             IN  IF jump = 0
                 THEN IF id2 >= 1
                      THEN {[tree |-> tree, value |-> id2 - 1, panic |-> FALSE]}
                      ELSE {[tree |-> tree, value |-> 0, panic |-> TRUE],
                            [tree |-> tree, value |-> U32Max, panic |-> FALSE]}
                 ELSE RemoveLoopNoDecrement(tree, number, left_count, id2,
                                            jump \div 2)

\* the last step to the left forgets `node_id -= 1`
RECURSIVE RemoveLoopNoLeafStep(_, _, _, _, _)
RemoveLoopNoLeafStep(tree, number, left_count, node_id, jump) ==
    LET node == tree[node_id]
    IN  IF number >= node + left_count
        THEN IF jump = 0
             THEN {[tree |-> tree, value |-> node_id + jump, panic |-> FALSE]}
             ELSE RemoveLoopNoLeafStep(tree, number, left_count + node,
                                       node_id + jump, jump \div 2)
        ELSE LET tree2 == [tree EXCEPT ![node_id] = @ - 1]
                 id2   == node_id - jump
             IN  IF jump = 0
                 THEN {[tree |-> tree2, value |-> id2, panic |-> FALSE]}
                 ELSE RemoveLoopNoLeafStep(tree2, number, left_count, id2,
                                           jump \div 2)

\* The loop of DecodeAS::remove.  The result is the set of outcomes the
\* build can produce: `node_id -= 1` at node_id = 0 panics when overflow
\* checks are compiled in and wraps to u32::MAX when they are not.
RECURSIVE RemoveLoop(_, _, _, _, _)
RemoveLoop(tree, number, left_count, node_id, jump) ==
    LET node == tree[node_id]
    IN  IF number >= node + left_count
        THEN \* go right
             IF jump = 0
             THEN {[tree |-> tree, value |-> node_id + jump, panic |-> FALSE]}
             ELSE RemoveLoop(tree, number, left_count + node,
                             node_id + jump, jump \div 2)
        ELSE \* go left
             LET tree2 == [tree EXCEPT ![node_id] = @ - 1]
                 id2   == node_id - jump
             IN  IF jump = 0
                 THEN IF id2 >= 1
                      THEN {[tree |-> tree2, value |-> id2 - 1, panic |-> FALSE]}
                      ELSE {[tree |-> tree2, value |-> 0, panic |-> TRUE],
                            [tree |-> tree2, value |-> U32Max, panic |-> FALSE]}
                 ELSE RemoveLoop(tree2, number, left_count, id2, jump \div 2)

\* DecodeAS::remove
DecodeASRemove(tree, number) ==
    LET length == Cardinality(DOMAIN tree)
    IN  RemoveLoop(tree, number, 0, length \div 2, length \div 4)


(***************************************************************************)
(* Byte strings and the encode size.                                       *)
(***************************************************************************)
\* the most significant byte comes first
RECURSIVE ToBeBytes(_)
ToBeBytes(n) ==
    IF n = 0 THEN <<>> ELSE Append(ToBeBytes(n \div 256), n % 256)

\* UBig::to_le_bytes: base-256 digits, least significant first, none for 0
RECURSIVE ToLeBytes(_)
ToLeBytes(n) ==
    IF n = 0 THEN <<>> ELSE <<n % 256>> \o ToLeBytes(n \div 256)

\* UBig::from_le_bytes
RECURSIVE FromLeBytes(_)
FromLeBytes(b) ==
    IF b = <<>> THEN 0 ELSE Head(b) + 256 * FromLeBytes(Tail(b))

RECURSIVE BytesFor(_, _)
BytesFor(k, f) == IF 2 ^ (8 * k) >= f THEN k ELSE BytesFor(k + 1, f)

\* Lehmer::get_encode_size: ceil(log2(n!) / 8), 0 for n = 0.  The f64 sum of
\* the source is modelled by the exact logarithm: BytesFor finds the least k
\* with n! <= 2^(8k).
GetEncodeSize(element_count) ==
    IF element_count = 0 THEN 0 ELSE BytesFor(0, Factorial(element_count))

(***************************************************************************)
(* The accumulator: EncodeCache (u128) of lib.rs, Cache (u64) of           *)
(* encode.rs.  bits is the width of its two fields.                        *)
(***************************************************************************)
\* the seed is add instead of add * mul
CacheNewNoSeedMul(add, mul) ==
    [ok |-> add * mul < 2 ^ WordBits, add |-> add, mul |-> mul]

\* EncodeCache::new / Cache::new; ok is FALSE when the unwrap of the u64
\* checked_mul panics
CacheNew(add, mul) ==
    [ok |-> add * mul < 2 ^ WordBits, add |-> add * mul, mul |-> mul]

\* the sum is stored before the product of the multipliers is checked
CacheAddEarlyStore(cache, add, mul, bits) ==
    LET tmp1 == cache.add + add
        tmp2 == tmp1 * mul
        m    == cache.mul * mul
    IN  IF tmp1 >= 2 ^ bits \/ tmp2 >= 2 ^ bits
        THEN [ok |-> FALSE, add |-> cache.add, mul |-> cache.mul]
        ELSE IF m >= 2 ^ bits
        THEN [ok |-> FALSE, add |-> tmp2, mul |-> cache.mul]
        ELSE [ok |-> TRUE, add |-> tmp2, mul |-> m]

\* EncodeCache::add / Cache::add; ok is FALSE for None
CacheAdd(cache, add, mul, bits) ==
    LET tmp1 == cache.add + add
        tmp2 == tmp1 * mul
        m    == cache.mul * mul
    IN  IF tmp1 >= 2 ^ bits \/ tmp2 >= 2 ^ bits \/ m >= 2 ^ bits
        THEN [ok |-> FALSE, add |-> cache.add, mul |-> cache.mul]
        ELSE [ok |-> TRUE, add |-> tmp2, mul |-> m]

\* BigCache::identity
BigCacheIdentity == [add |-> 0, mul |-> 1]

\* the left add is scaled by the left mul
CombineLeftMul(left, right) ==
    [add |-> left.add * left.mul + right.add, mul |-> left.mul * right.mul]

\* BigCache::combine
Combine(left, right) ==
    [add |-> left.add * right.mul + right.add, mul |-> left.mul * right.mul]

(***************************************************************************)
(* The successive division loop of decode_in.                              *)
(***************************************************************************)
\* each remainder is taken by the next divisor
RECURSIVE SuccessiveDivideNextDivisor(_, _, _)
SuccessiveDivideNextDivisor(input, divisor, count) ==
    IF count = 0
    THEN <<>>
    ELSE <<input % (divisor + 1)>>
           \o SuccessiveDivideNextDivisor(input \div divisor, divisor + 1,
                                          count - 1)

\* the remainders of input by divisor, divisor + 1, ... (count of them)
RECURSIVE SuccessiveDivide(_, _, _)
SuccessiveDivide(input, divisor, count) ==
    IF count = 0
    THEN <<>>
    ELSE <<input % divisor>>
           \o SuccessiveDivide(input \div divisor, divisor + 1, count - 1)

(***************************************************************************)
(* The split-divide of decode.rs.  A work item is a record of its dividend,*)
(* its start_index and its slice of the root remainders array, given by    *)
(* the offset lo of its first cell and its length len.                     *)
(***************************************************************************)
\* a dividend of at least this many bits is split at a sixteenth of its bits
LargeDividendBits == 20000

Min(a, b) == IF a <= b THEN a ELSE b

\* divide: the remainders it writes and whatever is left of the dividend
\* (the assert_eq!(dividend, 0) panics when that is not 0)
Divide(work) ==
    [written |-> SuccessiveDivide(work.dividend, work.start_index, work.len),
     rest    |-> work.dividend \div RangeProduct(work.start_index, work.len)]

\* the loop of split: the first index after start_index up to which the
\* partial factorial has at least split_length bits
RECURSIVE SplitIndex(_, _, _)
SplitIndex(split_index, factorial, split_length) ==
    IF BitLen(factorial * split_index) >= split_length
    THEN split_index + 1
    ELSE SplitIndex(split_index + 1, factorial * split_index, split_length)

\* the left item gets the quotient and the right item the remainder
SplitSwapped(work) ==
    LET length       == BitLen(work.dividend)
        split_length == IF length >= LargeDividendBits
                        THEN length \div 16 ELSE length \div 4
        split_index  == SplitIndex(work.start_index, 1, split_length)
        k            == split_index - work.start_index
        factorial    == RangeProduct(work.start_index, k)
    IN  IF length <= WordBits
        THEN [split |-> FALSE, panic |-> FALSE, left |-> work, right |-> work]
        ELSE [split |-> TRUE,
              panic |-> k > work.len,
              left  |-> [dividend |-> work.dividend \div factorial,
                         start_index |-> work.start_index,
                         lo |-> work.lo, len |-> k],
              right |-> [dividend |-> work.dividend % factorial,
                         start_index |-> split_index,
                         lo |-> work.lo + k, len |-> work.len - k]]

\* the partial factorial is grown to the bits of the whole dividend
SplitFullLength(work) ==
    LET length       == BitLen(work.dividend)
        split_length == length
        split_index  == SplitIndex(work.start_index, 1, split_length)
        k            == split_index - work.start_index
        factorial    == RangeProduct(work.start_index, k)
    IN  IF length <= WordBits
        THEN [split |-> FALSE, panic |-> FALSE, left |-> work, right |-> work]
        ELSE [split |-> TRUE,
              panic |-> k > work.len,
              left  |-> [dividend |-> work.dividend % factorial,
                         start_index |-> work.start_index,
                         lo |-> work.lo, len |-> k],
              right |-> [dividend |-> work.dividend \div factorial,
                         start_index |-> split_index,
                         lo |-> work.lo + k, len |-> work.len - k]]

\* the right item starts at the first cell of the parent's slice
SplitOverlap(work) ==
    LET length       == BitLen(work.dividend)
        split_length == IF length >= LargeDividendBits
                        THEN length \div 16 ELSE length \div 4
        split_index  == SplitIndex(work.start_index, 1, split_length)
        k            == split_index - work.start_index
        factorial    == RangeProduct(work.start_index, k)
    IN  IF length <= WordBits
        THEN [split |-> FALSE, panic |-> FALSE, left |-> work, right |-> work]
        ELSE [split |-> TRUE,
              panic |-> k > work.len,
              left  |-> [dividend |-> work.dividend % factorial,
                         start_index |-> work.start_index,
                         lo |-> work.lo, len |-> k],
              right |-> [dividend |-> work.dividend \div factorial,
                         start_index |-> split_index,
                         lo |-> work.lo, len |-> work.len - k]]

\* split: split is FALSE for (work, None); panic is TRUE when split_at_mut
\* is called with a mid beyond the slice
Split(work) ==
    LET length       == BitLen(work.dividend)
        split_length == IF length >= LargeDividendBits
                        THEN length \div 16 ELSE length \div 4
        split_index  == SplitIndex(work.start_index, 1, split_length)
        k            == split_index - work.start_index
        factorial    == RangeProduct(work.start_index, k)
    IN  IF length <= WordBits
        THEN [split |-> FALSE, panic |-> FALSE, left |-> work, right |-> work]
        ELSE [split |-> TRUE,
              panic |-> k > work.len,
              left  |-> [dividend |-> work.dividend % factorial,
                         start_index |-> work.start_index,
                         lo |-> work.lo, len |-> k],
              right |-> [dividend |-> work.dividend \div factorial,
                         start_index |-> split_index,
                         lo |-> work.lo + k, len |-> work.len - k]]


(***************************************************************************)
(* Inputs.                                                                 *)
(***************************************************************************)
IsPermutation(p) ==
    /\ \A i \in 1 .. Len(p) : p[i] \in 0 .. Len(p) - 1
    /\ \A i, j \in 1 .. Len(p) : i # j => p[i] # p[j]

PermutationsOf(n) == {p \in [1 .. n -> 0 .. n - 1] : IsPermutation(p)}

\* the sequence of the tests test_roundtrip_8 and test_encode_as_0
Example8 == <<7, 2, 0, 6, 5, 1, 4, 3>>

\* a permutation of 8 whose digits 0, 0, 2 make the third push fail on
\* the product of the multipliers alone
MulOverflow8 == <<0, 1, 4, 2, 3, 5, 6, 7>>

EncodeInputs ==
    UNION {PermutationsOf(n) : n \in 0 .. MaxN}
      \cup UNION {[1 .. n -> 0 .. n] : n \in 0 .. MaxInvalidLen}
      \cup {Example8, MulOverflow8}

PadTo(b, k) == b \o [i \in 1 .. k - Len(b) |-> 0]

DecodeInputs ==
    {PadTo(ToLeBytes(v), k) : v \in 0 .. MaxCode, k \in 0 .. MaxCodeLen}

\* the reference Lehmer digit of position i (from 1) of the sequence p
LehmerDigit(p, i) == Cardinality({j \in i + 1 .. Len(p) : p[j] < p[i]})

(***************************************************************************)
(* State.                                                                  *)
(***************************************************************************)
VARIABLES
    rankN,      \* element count of the ranking tree under test
    rankTree,   \* EncodeAS.tree
    rankIn,     \* the values inserted so far, in order
    rankOut,    \* the values insert returned, in order
    selN,       \* element count of the selection tree under test
    selTree,    \* DecodeAS.tree
    selArgs,    \* the arguments of the removes so far, in order
    selOut,     \* the values remove returned, in order
    selPanic,   \* a remove panicked
    pc,         \* position of the encode / decode call
    numbers,    \* encode: the input sequence
    cacheBits,  \* encode: width of the accumulator's fields
    index,      \* loop index of encode_in / of the selection loop of decode_in
    validation, \* encode_in: the visited values
    encode_as,  \* encode_in: the ranking tree
    result,     \* encode_in: the big integer
    cache,      \* encode_in: the accumulator
    digits,     \* the digits insert returned to encode_in, in order
    flushes,    \* how often the accumulator was flushed inside the loop
    out,        \* encode: the byte vector
    encRes,     \* what encode returned: "none", "Ok", an Error or "panic"
    encoded,    \* decode: the byte string
    elementCount, \* decode: the element count
    tmp,        \* decode_in: the remainders
    decode_as,  \* decode_in: the selection tree
    decOut,     \* decode: the output vector
    decRes,     \* what decode returned: "none", "Ok", an Error or "panic"
    divPc,      \* split-divide: "idle", "peel", "run", "done" or "panic"
    divMode,    \* split-divide: which function runs, under which schedule
    divRoot,    \* split-divide: the work item of the call
    remainders, \* split-divide: the remainders array of the call
    writes,     \* split-divide: how often each cell was written
    work,       \* split-divide: the work items not yet processed
    peeled,     \* parallel_divide: the item its loop holds
    splits,     \* split-divide: how many items were split in two
    chunkInput, \* reduce: the chunk list handed to the reduce
    chunks      \* reduce: the chunk list as combined so far

rankVars == <<rankN, rankTree, rankIn, rankOut>>
selVars  == <<selN, selTree, selArgs, selOut, selPanic>>
encVars  == <<numbers, cacheBits, validation, encode_as, result, cache,
              digits, flushes, out, encRes>>
decVars  == <<encoded, elementCount, tmp, decode_as, decOut, decRes>>
codecVars == <<pc, index, encVars, decVars>>
divVars  == <<divPc, divMode, divRoot, remainders, writes, work, peeled,
              splits>>
cmbVars  == <<chunkInput, chunks>>
vars     == <<rankVars, selVars, codecVars, divVars, cmbVars>>

RankIdle ==
    /\ rankN = 0
    /\ rankTree = EncodeASNew(0)
    /\ rankIn = <<>>
    /\ rankOut = <<>>

SelIdle ==
    /\ selN = 0
    /\ selTree = DecodeASNew(0)
    /\ selArgs = <<>>
    /\ selOut = <<>>
    /\ selPanic = FALSE

EncIdle ==
    /\ numbers = <<>>
    /\ cacheBits = WordBits
    /\ validation = {}
    /\ encode_as = EncodeASNew(0)
    /\ result = 0
    /\ cache = [add |-> 0, mul |-> 1]
    /\ digits = <<>>
    /\ flushes = 0
    /\ out = <<>>
    /\ encRes = "none"

DecIdle ==
    /\ encoded = <<>>
    /\ elementCount = 0
    /\ tmp = <<>>
    /\ decode_as = DecodeASNew(0)
    /\ decOut = <<>>
    /\ decRes = "none"

CodecIdle ==
    /\ pc = "idle"
    /\ index = 0
    /\ EncIdle
    /\ DecIdle

CmbIdle ==
    /\ chunkInput = <<>>
    /\ chunks = <<>>

NoItem == [dividend |-> 0, start_index |-> 2, lo |-> 0, len |-> 0]

DivIdle ==
    /\ divPc = "idle"
    /\ divMode = "sequential"
    /\ divRoot = NoItem
    /\ remainders = <<>>
    /\ writes = <<>>
    /\ work = <<>>
    /\ peeled = NoItem
    /\ splits = 0

(***************************************************************************)
(* The ranking tree driven by distinct values of [0, N).                   *)
(***************************************************************************)
InitRank ==
    /\ rankN \in 1 .. MaxN
    /\ rankTree = EncodeASNew(rankN)
    /\ rankIn = <<>>
    /\ rankOut = <<>>
    /\ SelIdle
    /\ CodecIdle
    /\ DivIdle
    /\ CmbIdle

RankInsert(x) ==
    /\ x \notin Range(rankIn)
    /\ LET r == EncodeASInsert(rankTree, x)
       IN  /\ rankTree' = r.tree
           /\ rankOut' = Append(rankOut, r.result)
    /\ rankIn' = Append(rankIn, x)
    /\ UNCHANGED <<rankN, selVars, codecVars, divVars, cmbVars>>

NextRank == \E x \in 0 .. rankN - 1 : RankInsert(x)

SpecRank == InitRank /\ [][NextRank]_vars

(***************************************************************************)
(* The selection tree driven by digits below the remaining count.          *)
(***************************************************************************)
InitSelect ==
    /\ selN \in 1 .. MaxN
    /\ selTree = DecodeASNew(selN)
    /\ selArgs = <<>>
    /\ selOut = <<>>
    /\ selPanic = FALSE
    /\ RankIdle
    /\ CodecIdle
    /\ DivIdle
    /\ CmbIdle

SelRemaining == selN - Len(selArgs)

SelRemove(d) ==
    /\ ~selPanic
    /\ d < SelRemaining
    /\ \E o \in DecodeASRemove(selTree, d) :
          /\ selTree' = o.tree
          /\ selPanic' = o.panic
          /\ selOut' = IF o.panic THEN selOut ELSE Append(selOut, o.value)
    /\ selArgs' = Append(selArgs, d)
    /\ UNCHANGED <<selN, rankVars, codecVars, divVars, cmbVars>>

NextSelect == \E d \in 0 .. selN - 1 : SelRemove(d)

SpecSelect == InitSelect /\ [][NextSelect]_vars

(***************************************************************************)
(* Lehmer::encode followed by Lehmer::decode of its output, and            *)
(* Lehmer::decode of an arbitrary byte string.                             *)
(***************************************************************************)
\* Lehmer::encode up to the loop of encode_in
InitEncode ==
    /\ pc = "encode"
    /\ index = 0
    /\ numbers \in EncodeInputs
    /\ cacheBits \in {WordBits, 2 * WordBits}
    /\ validation = {}
    /\ encode_as = EncodeASNew(Len(numbers))
    /\ result = 0
    /\ cache = [add |-> CacheNew(0, 1).add, mul |-> CacheNew(0, 1).mul]
    /\ digits = <<>>
    /\ flushes = 0
    /\ out = [i \in 1 .. GetEncodeSize(Len(numbers)) |-> 0]
    /\ encRes = "none"
    /\ DecIdle

\* a call of Lehmer::decode
InitDecode ==
    /\ pc = "decode"
    /\ index = 0
    /\ EncIdle
    /\ encoded \in DecodeInputs
    /\ elementCount \in 0 .. MaxN
    /\ tmp = <<>>
    /\ decode_as = DecodeASNew(0)
    /\ decOut = <<>>
    /\ decRes = "none"

Init ==
    /\ InitEncode \/ InitDecode
    /\ RankIdle
    /\ SelIdle
    /\ DivIdle
    /\ CmbIdle

\* encode_in on an empty input
EncodeEmpty ==
    /\ pc = "encode"
    /\ numbers = <<>>
    /\ encRes' = "Ok"
    /\ pc' = "encoded"
    /\ UNCHANGED <<index, numbers, cacheBits, validation, encode_as, result,
                   cache, digits, flushes, out, decVars, rankVars, selVars, divVars, cmbVars>>

EncodeFail(e) ==
    /\ encRes' = e
    /\ pc' = "encoded"
    /\ UNCHANGED <<index, numbers, cacheBits, validation, encode_as, result,
                   cache, digits, flushes, out>>

\* one iteration of the loop of encode_in over numbers[..len - 1]
EncodeStep ==
    /\ pc = "encode"
    /\ index < Len(numbers) - 1
    /\ LET number == numbers[index + 1]
       IN  IF number >= Len(numbers)
           THEN EncodeFail("ValidationOutOfRange")
           ELSE IF number \in validation
           THEN EncodeFail("ValidationDuplicateNumber")
           ELSE LET r     == EncodeASInsert(encode_as, number)
                    add   == r.result
                    mul   == Len(numbers) - (index + 1)
                    c     == CacheAdd(cache, add, mul, cacheBits)
                    fresh == CacheNew(add, mul)
                IN  /\ validation' = validation \cup {number}
                    /\ encode_as' = r.tree
                    /\ digits' = Append(digits, add)
                    /\ IF c.ok
                       THEN /\ cache' = [add |-> c.add, mul |-> c.mul]
                            /\ index' = index + 1
                            /\ UNCHANGED <<result, flushes, encRes, pc>>
                       ELSE /\ result' = result * c.mul + c.add
                            /\ flushes' = flushes + 1
                            /\ cache' = [add |-> fresh.add, mul |-> fresh.mul]
                            /\ IF fresh.ok
                               THEN /\ index' = index + 1
                                    /\ UNCHANGED <<encRes, pc>>
                               ELSE /\ encRes' = "panic"
                                    /\ pc' = "encoded"
                                    /\ UNCHANGED index
                    /\ UNCHANGED <<numbers, cacheBits, out>>
    /\ UNCHANGED <<decVars, rankVars, selVars, divVars, cmbVars>>

\* encode_in after the loop: the last flush and the bytes
EncodeFinish ==
    /\ pc = "encode"
    /\ numbers # <<>>
    /\ index = Len(numbers) - 1
    /\ LET res   == result * cache.mul + cache.add
           bytes == ToLeBytes(res)
       IN  /\ result' = res
           /\ IF \E i \in Len(out) + 1 .. Len(bytes) : bytes[i] # 0
              THEN /\ encRes' = "panic"
                   /\ out' = [i \in 1 .. Len(out) |-> bytes[i]]
              ELSE /\ encRes' = "Ok"
                   /\ out' = [i \in 1 .. Len(out) |->
                                IF i <= Len(bytes) THEN bytes[i] ELSE out[i]]
    /\ pc' = "encoded"
    /\ UNCHANGED <<index, numbers, cacheBits, validation, encode_as, cache,
                   digits, flushes, decVars, rankVars, selVars, divVars, cmbVars>>

\* Lehmer::decode up to the selection loop of decode_in
DecodeBegin(bytes, count) ==
    /\ encoded' = bytes
    /\ elementCount' = count
    /\ index' = 0
    /\ IF count = 0
       THEN /\ decRes' = "Ok"
            /\ pc' = "done"
            /\ UNCHANGED <<tmp, decode_as, decOut>>
       ELSE /\ tmp' = SuccessiveDivide(FromLeBytes(bytes), 2, count - 1) \o <<0>>
            /\ decode_as' = DecodeASNew(count)
            /\ decOut' = [i \in 1 .. count |-> 0]
            /\ pc' = "select"
            /\ UNCHANGED decRes
    /\ UNCHANGED <<encVars, rankVars, selVars, divVars, cmbVars>>

\* the round trip of the tests: decode what encode returned
DecodeOfEncoded ==
    /\ pc = "encoded"
    /\ encRes = "Ok"
    /\ DecodeBegin(out, Len(numbers))

DecodeOfBytes ==
    /\ pc = "decode"
    /\ DecodeBegin(encoded, elementCount)

\* one iteration of the loop of decode_in over tmp[0..len - 1] reversed
DecodeSelectStep ==
    /\ pc = "select"
    /\ index < elementCount - 1
    /\ \E o \in DecodeASRemove(decode_as, tmp[elementCount - 1 - index]) :
          /\ decode_as' = o.tree
          /\ IF o.panic
             THEN /\ decRes' = "panic"
                  /\ pc' = "done"
                  /\ UNCHANGED <<decOut, index>>
             ELSE /\ decOut' = [decOut EXCEPT ![index + 1] = o.value]
                  /\ index' = index + 1
                  /\ UNCHANGED <<decRes, pc>>
    /\ UNCHANGED <<encoded, elementCount, tmp, encVars, rankVars, selVars, divVars, cmbVars>>

\* decode_in after the loop: the last element is remove(0)
DecodeFinish ==
    /\ pc = "select"
    /\ index = elementCount - 1
    /\ \E o \in DecodeASRemove(decode_as, 0) :
          /\ decode_as' = o.tree
          /\ IF o.panic
             THEN /\ decRes' = "panic"
                  /\ UNCHANGED decOut
             ELSE /\ decRes' = "Ok"
                  /\ decOut' = [decOut EXCEPT ![elementCount] = o.value]
    /\ pc' = "done"
    /\ UNCHANGED <<index, encoded, elementCount, tmp, encVars, rankVars, selVars, divVars, cmbVars>>

Next ==
    \/ EncodeEmpty
    \/ EncodeStep
    \/ EncodeFinish
    \/ DecodeOfEncoded
    \/ DecodeOfBytes
    \/ DecodeSelectStep
    \/ DecodeFinish

Spec == Init /\ [][Next]_vars


(***************************************************************************)
(* recursive_divide and parallel_divide on one root work item.             *)
(*                                                                         *)
(* divMode "sequential" is recursive_divide below the length of 1000:      *)
(* right item first, then left, so work is a stack and its last item runs. *)
(* divMode "join" is recursive_divide with rayon::join: any pending item   *)
(* runs next.  divMode "par_iter" is parallel_divide: its loop peels right *)
(* items off the root, then every collected item runs recursive_divide in  *)
(* any order.  The slices of the model are shorter than 1000, so the       *)
(* schedule is chosen with the root instead of by the length.              *)
(***************************************************************************)
RootDividends(s, len) ==
    0 .. Min(MaxDividend, RangeProduct(s, len) + 2 ^ (WordBits + 1))

InitDivide ==
    /\ divMode \in {"sequential", "join", "par_iter"}
    /\ \E s \in 2 .. MaxStart, len \in 0 .. MaxDivLen :
          \E d \in RootDividends(s, len) :
             divRoot = [dividend |-> d, start_index |-> s, lo |-> 0, len |-> len]
    /\ remainders = [i \in 1 .. divRoot.len |-> 0]
    /\ writes = [i \in 1 .. divRoot.len |-> 0]
    /\ splits = 0
    /\ IF divMode = "par_iter"
       THEN /\ divPc = "peel"
            /\ peeled = divRoot
            /\ work = <<>>
       ELSE /\ divPc = "run"
            /\ peeled = NoItem
            /\ work = <<divRoot>>
    /\ RankIdle
    /\ SelIdle
    /\ CodecIdle
    /\ CmbIdle

Without(seq, k) == SubSeq(seq, 1, k - 1) \o SubSeq(seq, k + 1, Len(seq))

\* the pending items that may run next
Runnable ==
    IF divMode = "sequential" THEN {Len(work)} \ {0} ELSE 1 .. Len(work)

\* one iteration of the loop of parallel_divide
PeelStep ==
    /\ divPc = "peel"
    /\ LET sp == Split(peeled)
       IN  IF ~sp.split
           THEN /\ work' = Append(work, sp.left)
                /\ divPc' = "run"
                /\ UNCHANGED <<peeled, splits>>
           ELSE IF sp.panic
           THEN /\ divPc' = "panic"
                /\ UNCHANGED <<work, peeled, splits>>
           ELSE /\ work' = Append(work, sp.right)
                /\ peeled' = sp.left
                /\ splits' = splits + 1
                /\ UNCHANGED divPc
    /\ UNCHANGED <<divMode, divRoot, remainders, writes, rankVars, selVars,
                   codecVars, cmbVars>>

\* recursive_divide on an item that split hands back whole: divide
DivideStep(k) ==
    /\ divPc = "run"
    /\ k \in Runnable
    /\ ~Split(work[k]).split
    /\ LET item == work[k]
           d    == Divide(item)
       IN  /\ remainders' = [i \in 1 .. Len(remainders) |->
                               IF i > item.lo /\ i <= item.lo + item.len
                               THEN d.written[i - item.lo] ELSE remainders[i]]
           /\ writes' = [i \in 1 .. Len(writes) |->
                           IF i > item.lo /\ i <= item.lo + item.len
                           THEN writes[i] + 1 ELSE writes[i]]
           /\ work' = Without(work, k)
           /\ divPc' = IF d.rest # 0 THEN "panic"
                       ELSE IF Len(work) = 1 THEN "done" ELSE "run"
    /\ UNCHANGED <<divMode, divRoot, peeled, splits, rankVars, selVars,
                   codecVars, cmbVars>>

\* recursive_divide on an item that split cuts in two
SplitStep(k) ==
    /\ divPc = "run"
    /\ k \in Runnable
    /\ Split(work[k]).split
    /\ LET sp == Split(work[k])
       IN  IF sp.panic
           THEN /\ divPc' = "panic"
                /\ UNCHANGED <<work, splits>>
           ELSE /\ work' = Without(work, k) \o <<sp.left, sp.right>>
                /\ splits' = splits + 1
                /\ UNCHANGED divPc
    /\ UNCHANGED <<divMode, divRoot, remainders, writes, peeled, rankVars,
                   selVars, codecVars, cmbVars>>

NextDivide ==
    \/ PeelStep
    \/ \E k \in 1 .. Len(work) : DivideStep(k)
    \/ \E k \in 1 .. Len(work) : SplitStep(k)

SpecDivide == InitDivide /\ [][NextDivide]_vars

(***************************************************************************)
(* The reduce of a chunk list with BigCache::combine: any two neighbours   *)
(* may be combined next, which gives every order-preserving grouping.      *)
(***************************************************************************)
ChunkValues ==
    [add : 0 .. MaxChunkValue, mul : 0 .. MaxChunkValue]

InitCombine ==
    /\ \E n \in 0 .. MaxChunks : chunkInput \in [1 .. n -> ChunkValues]
    /\ chunks = chunkInput
    /\ RankIdle
    /\ SelIdle
    /\ CodecIdle
    /\ DivIdle

CombineStep(k) ==
    /\ k < Len(chunks)
    /\ chunks' = SubSeq(chunks, 1, k - 1)
                   \o <<Combine(chunks[k], chunks[k + 1])>>
                   \o SubSeq(chunks, k + 2, Len(chunks))
    /\ UNCHANGED <<chunkInput, rankVars, selVars, codecVars, divVars>>

NextCombine == \E k \in 1 .. MaxChunks : CombineStep(k)

SpecCombine == InitCombine /\ [][NextCombine]_vars

(***************************************************************************)
(* Properties.                                                             *)
(***************************************************************************)
N == Len(numbers)

HasDuplicate(p) == \E i, j \in 1 .. Len(p) : i # j /\ p[i] = p[j]

AllBelowLen(p) == \A i \in 1 .. Len(p) : p[i] < Len(p)

\* D[0]*(n-1)! + D[1]*(n-2)! + ... + D[n-2]*1! for the Lehmer digits D of p
RECURSIVE CodeFrom(_, _)
CodeFrom(p, i) ==
    IF i >= Len(p)
    THEN 0
    ELSE LehmerDigit(p, i) * Factorial(Len(p) - i) + CodeFrom(p, i + 1)

LehmerCode(p) == CodeFrom(p, 1)

\* C1: round trip.  For every permutation of {0..N-1}, N >= 2, encode
\* returns Ok, and decoding the returned bytes with element count N returns
\* Ok and the permutation; neither call panics.
RoundTrip ==
    (IsPermutation(numbers) /\ N >= 2) =>
        /\ encRes \in {"none", "Ok"}
        /\ decRes \in {"none", "Ok"}
        /\ pc = "done" =>
              /\ decRes = "Ok"
              /\ elementCount = N
              /\ decOut = numbers

RoundTripWitness ==
    /\ pc = "done"
    /\ numbers = <<4, 2, 0, 1, 3>>
    /\ encoded = <<108>>
    /\ decRes = "Ok"
    /\ decOut = numbers

\* C2: Lehmer transform equivalence.  Inserting the values of a permutation
\* in order into a fresh ranking tree returns at step i the value minus the
\* number of smaller values inserted before, which for the complete
\* permutation is d[i] = |{ j > i : P[j] < P[i] }|, also when N is no power
\* of two.
LehmerTransform ==
    /\ Len(rankOut) = Len(rankIn)
    /\ \A i \in 1 .. Len(rankIn) :
          rankOut[i] = rankIn[i]
                        - Cardinality({j \in 1 .. i - 1 : rankIn[j] < rankIn[i]})
    /\ Len(rankIn) = rankN =>
          \A i \in 1 .. rankN : rankOut[i] = LehmerDigit(rankIn, i)

LehmerTransformWitness ==
    /\ rankN = 5
    /\ rankIn = <<3, 4, 0, 2, 1>>
    /\ rankOut = <<3, 3, 0, 1, 0>>

\* C3: selection contract.  After any sequence of removes whose arguments
\* were below the then-remaining count, remove(d) returns the d-th smallest
\* value of {0..N-1} not returned before, and never a value returned before.
SelectionContract ==
    /\ ~selPanic
    /\ Len(selOut) = Len(selArgs)
    /\ \A k \in 1 .. Len(selOut) :
          LET rest == (0 .. selN - 1) \ {selOut[j] : j \in 1 .. k - 1}
          IN  /\ selOut[k] \in rest
              /\ selOut[k] = NthSmallest(rest, selArgs[k])

\* The contract of the selection tree for element counts of at least 2.
SelectionContractFrom2 == selN >= 2 => SelectionContract

\* C4: the integer encode serialises is D[0]*(N-1)! + ... + D[N-2]*1! for
\* the Lehmer digits D of the permutation, wherever the accumulator was
\* flushed.
EncodedInteger ==
    (IsPermutation(numbers) /\ N >= 1 /\ encRes # "none") =>
        /\ encRes = "Ok"
        /\ result = LehmerCode(numbers)
        /\ FromLeBytes(out) = LehmerCode(numbers)

EncodedIntegerWitness ==
    /\ encRes = "Ok"
    /\ IsPermutation(numbers)
    /\ N >= 5
    /\ cacheBits = WordBits
    /\ flushes >= 2
    /\ result > 2 ^ (2 * WordBits)

\* C5: rejection of invalid input.  encode returns
\* Err(ValidationDuplicateNumber) for an input of values below its length
\* with a repeated value, Err(ValidationOutOfRange) for an input of distinct
\* values with a value >= N, and never Ok for an input that is no
\* permutation.
RejectsInvalid ==
    (pc = "encoded" /\ N >= 1) =>
        /\ (AllBelowLen(numbers) /\ HasDuplicate(numbers))
              => encRes = "ValidationDuplicateNumber"
        /\ (~HasDuplicate(numbers) /\ ~AllBelowLen(numbers))
              => encRes = "ValidationOutOfRange"
        /\ encRes = "Ok" => IsPermutation(numbers)

\* C6: N = 1.  encode([0]) returns Ok with a code of length 0, and decode of
\* the empty code with element count 1 returns Ok([0]) without underflow.
SingleElement ==
    /\ (numbers = <<0>> /\ pc = "encoded") => (encRes = "Ok" /\ out = <<>>)
    /\ (encoded = <<>> /\ elementCount = 1 /\ pc = "done")
          => (decRes = "Ok" /\ decOut = <<0>>)

\* C7: malformed code.  decode of a byte string whose integer is >= N!
\* returns Err(DecodeError); it neither panics nor returns Ok.  (Stated for
\* N >= 2; N = 1 is the boundary of C6.)
MalformedRejected ==
    (pc = "done" /\ elementCount >= 2
       /\ FromLeBytes(encoded) >= Factorial(elementCount))
        => decRes = "DecodeError"

\* C8: for every permutation the digits of the encode loop satisfy
\* 0 <= D[i] <= N-1-i (i from 0) and the resulting integer is below N!.
DigitBounds ==
    (IsPermutation(numbers) /\ N >= 1) =>
        /\ \A i \in 1 .. Len(digits) : digits[i] >= 0 /\ digits[i] <= N - i
        /\ encRes # "none" => (encRes = "Ok" /\ result < Factorial(N))

DigitBoundsWitness ==
    /\ encRes = "Ok"
    /\ numbers = <<4, 3, 2, 1, 0>>
    /\ digits = <<4, 3, 2, 1>>
    /\ result = Factorial(5) - 1

\* C9 as stated: encoding [7,2,0,6,5,1,4,3] gives the little-endian bytes of
\* 29737: 0x29, 0x74 and zeros.
Example8Is29737 ==
    (numbers = Example8 /\ pc = "encoded") =>
        /\ encRes = "Ok"
        /\ Len(out) >= 2
        /\ out[1] = 41
        /\ out[2] = 116
        /\ \A i \in 3 .. Len(out) : out[i] = 0

\* C9 as amended: encoding [7,2,0,6,5,1,4,3] gives the little-endian bytes
\* of 36835 = 7*7! + 2*6! + 0*5! + 4*4! + 3*3! + 0*2! + 1*1!: 0xE3, 0x8F and
\* zeros.
Example8Is36835 ==
    (numbers = Example8 /\ pc = "encoded") =>
        /\ encRes = "Ok"
        /\ result = 36835
        /\ digits = <<7, 2, 0, 4, 3, 0, 1>>
        /\ Len(out) >= 2
        /\ out[1] = 227
        /\ out[2] = 143
        /\ \A i \in 3 .. Len(out) : out[i] = 0

Example8Witness ==
    /\ numbers = Example8
    /\ pc = "encoded"
    /\ encRes = "Ok"

\* C10: split-divide equivalence.  For every root work item (D, s, L) with
\* s >= 2 and D < s*(s+1)*...*(s+L-1), recursive_divide and parallel_divide
\* end without a panic and leave remainders[i] = (D div (s*...*(s+i-1))) mod
\* (s+i) for every i in 0..L-1, the digits of the successive division loop.
SplitDivideEquivalence ==
    (divPc # "idle"
       /\ divRoot.dividend < RangeProduct(divRoot.start_index, divRoot.len))
        => /\ divPc # "panic"
           /\ divPc = "done" =>
                 /\ \A i \in 0 .. divRoot.len - 1 :
                       remainders[i + 1] =
                          (divRoot.dividend
                             \div RangeProduct(divRoot.start_index, i))
                            % (divRoot.start_index + i)
                 /\ remainders = SuccessiveDivide(divRoot.dividend,
                                                  divRoot.start_index,
                                                  divRoot.len)

SplitDivideWitness ==
    /\ divPc = "done"
    /\ divMode = "sequential"
    /\ divRoot = [dividend |-> 2399, start_index |-> 2, lo |-> 0, len |-> 6]
    /\ splits >= 2
    /\ remainders = <<1, 2, 3, 4, 1, 3>>

\* cell i (from 1) of the root array lies in the slice of the item
Covers(item, i) == i > item.lo /\ i <= item.lo + item.len

\* the work items that still wait for recursive_divide
PendingItems ==
    {work[k] : k \in 1 .. Len(work)}
      \cup (IF divPc = "peel" THEN {peeled} ELSE {})

\* how many waiting items hold cell i
PendingCover(i) ==
    Cardinality({k \in 1 .. Len(work) : Covers(work[k], i)})
      + (IF divPc = "peel" /\ Covers(peeled, i) THEN 1 ELSE 0)

\* the remainders of recursive_divide run on its own, left item first
RECURSIVE LeftFirstResult(_)
LeftFirstResult(item) ==
    LET sp == Split(item)
    IN  IF ~sp.split
        THEN Divide(item).written
        ELSE LeftFirstResult(sp.left) \o LeftFirstResult(sp.right)

\* C11: order-freedom of the decode recursion.  The sub-items of a split own
\* disjoint regions that together cover the region of the parent, so every
\* cell of the array is held by exactly one waiting item or was written
\* exactly once; and under every schedule (sequential right-then-left, join
\* in any interleaving, parallel_divide) the final array is the same.
OrderFree ==
    (divPc \in {"peel", "run", "done"}) =>
        /\ \A w \in PendingItems :
              /\ w.lo >= 0 /\ w.len >= 0 /\ w.lo + w.len <= divRoot.len
              /\ (Split(w).split /\ ~Split(w).panic) =>
                    /\ Split(w).left.lo = w.lo
                    /\ Split(w).right.lo = w.lo + Split(w).left.len
                    /\ Split(w).left.len + Split(w).right.len = w.len
                    /\ Split(w).left.len >= 0 /\ Split(w).right.len >= 0
        /\ \A i \in 1 .. divRoot.len : writes[i] + PendingCover(i) = 1
        /\ divPc = "done" =>
              /\ \A i \in 1 .. divRoot.len : writes[i] = 1
              /\ remainders = LeftFirstResult(divRoot)

\* under join the left sub-item has completed before the right one
OrderFreeWitness ==
    /\ divMode = "join"
    /\ divPc = "run"
    /\ divRoot = [dividend |-> 2399, start_index |-> 2, lo |-> 0, len |-> 6]
    /\ splits >= 1
    /\ writes = <<1, 1, 0, 0, 0, 0>>
    /\ remainders = <<1, 2, 0, 0, 0, 0>>

\* the strict left fold of a chunk list
RECURSIVE FoldLeft(_, _)
FoldLeft(acc, list) ==
    IF list = <<>> THEN acc
    ELSE FoldLeft([add |-> acc.add * Head(list).mul + Head(list).add,
                   mul |-> acc.mul * Head(list).mul], Tail(list))

\* C12: the combine rule is associative for all triples of chunks, (0, 1) is
\* its left and right identity, and every order-preserving grouping of a
\* chunk list reduces to the same (add, mul), that of the strict left fold.
CombineMonoid ==
    /\ \A i, j, k \in 1 .. Len(chunkInput) :
          Combine(Combine(chunkInput[i], chunkInput[j]), chunkInput[k])
            = Combine(chunkInput[i], Combine(chunkInput[j], chunkInput[k]))
    /\ \A i \in 1 .. Len(chunkInput) :
          /\ Combine(BigCacheIdentity, chunkInput[i]) = chunkInput[i]
          /\ Combine(chunkInput[i], BigCacheIdentity) = chunkInput[i]
    /\ FoldLeft(BigCacheIdentity, chunks)
         = FoldLeft(BigCacheIdentity, chunkInput)
    /\ Len(chunks) = 1 =>
          chunks[1] = FoldLeft(BigCacheIdentity, chunkInput)

\* three chunks reduced right pair first
CombineMonoidWitness ==
    /\ chunkInput = <<[add |-> 1, mul |-> 2], [add |-> 2, mul |-> 2],
                      [add |-> 1, mul |-> 2]>>
    /\ chunks = <<[add |-> 9, mul |-> 8]>>

\* C13: at every moment of the ranking tree's life, each slot k >= 1 whose
\* lowest set bit has value s holds the number of inserted values v with
\* k - s <= v < k, so at most s, and slot 0 is never written.
RankSlotCounts ==
    (rankN > 0) =>
        /\ rankTree[0] = 0
        /\ \A k \in DOMAIN rankTree :
              k >= 1 =>
                  /\ rankTree[k] =
                       Cardinality({v \in Range(rankIn) :
                           /\ k - 2 ^ TrailingZeros(k) <= v
                           /\ v < k})
                  /\ rankTree[k] <= 2 ^ TrailingZeros(k)

\* all of 0..4 inserted: slot 4 covers 0..3 and is full
RankSlotCountsWitness ==
    /\ rankN = 5
    /\ Len(rankIn) = 5
    /\ rankTree[4] = 4
    /\ rankTree[6] = 1

\* the index of the root slot of the selection tree
SelRoot == NextPowerOfTwo(selN) \div 2

\* C14 as stated: in every state of the selection tree, from construction
\* through any sequence of valid removes, the count stored at the root slot
\* equals the number of values not yet selected.
RootCountsUnselected ==
    (selN >= 1 /\ ~selPanic) => selTree[SelRoot] = selN - Len(selOut)

\* C14: for element counts of at least 2, in every state of the selection
\* tree, from construction through any sequence of valid removes, the count
\* stored at the root slot equals the number of values of the root's left
\* subtree [0, L/2) not yet selected.
RootCountsLeftUnselected ==
    (selN >= 2 /\ ~selPanic) =>
        selTree[SelRoot] =
            Cardinality((0 .. SelRoot - 1) \ Range(selOut))

\* one value of the left half taken out of five: three of the four
\* unselected values are left of the root
RootCountsWitness ==
    /\ selN = 5
    /\ selOut = <<1>>
    /\ selTree[SelRoot] = 3

\* C15: accumulator push.  A step of the encode loop that pushes (a, m) on
\* the accumulator (A, M) either sets it to ((A + a) * m, M * m) and leaves
\* the integer alone, or, when A + a, (A + a) * m or M * m does not fit the
\* accumulator's word, flushes exactly (A, M), the state before the failed
\* push, and restarts the accumulator at (a * m, m).
AccumulatorPush ==
    [][(pc = "encode" /\ Len(digits') = Len(digits) + 1) =>
          LET a    == digits'[Len(digits')]
              m    == N - Len(digits')
              A    == cache.add
              M    == cache.mul
              fits == /\ A + a < 2 ^ cacheBits
                      /\ (A + a) * m < 2 ^ cacheBits
                      /\ M * m < 2 ^ cacheBits
          IN  IF fits
              THEN /\ cache' = [add |-> (A + a) * m, mul |-> M * m]
                   /\ result' = result
                   /\ flushes' = flushes
              ELSE /\ result' = result * M + A
                   /\ flushes' = flushes + 1
                   /\ cache' = [add |-> a * m, mul |-> m]]_vars

\* the third push of MulOverflow8 failed on M * m alone and (0, 42) was
\* flushed, not the sum 10 the failed push had computed
AccumulatorPushWitness ==
    /\ numbers = MulOverflow8
    /\ cacheBits = WordBits
    /\ digits = <<0, 0, 2>>
    /\ flushes = 1
    /\ result = 0
    /\ cache = [add |-> 10, mul |-> 5]

\* what a work item of b bits can still cost: itself and every item a chain
\* of splits can make of it
Weight(item) == 2 ^ (BitLen(item.dividend) + 1) - 1

RECURSIVE SumWeights(_)
SumWeights(items) ==
    IF items = <<>> THEN 0 ELSE Weight(Head(items)) + SumWeights(Tail(items))

\* the work recursive_divide has left
DivMeasure ==
    IF divPc \in {"done", "panic"} THEN 0
    ELSE SumWeights(work)
           + (IF divPc = "peel" THEN Weight(peeled) + 1 ELSE 0)

\* split on an item wider than the machine word
SplitShrinks ==
    \A w \in PendingItems :
       (w.start_index >= 2 /\ BitLen(w.dividend) > WordBits) =>
           /\ Split(w).split
           /\ BitLen(Split(w).left.dividend) < BitLen(w.dividend)
           /\ BitLen(Split(w).right.dividend) < BitLen(w.dividend)
           /\ (w.dividend < RangeProduct(w.start_index, w.len)) =>
                 ~Split(w).panic

\* C16: termination of the decode recursion.  For every work item with
\* start_index >= 2 whose dividend has more bits than the machine word, split
\* returns two sub-items whose dividends each have strictly fewer bits than
\* the parent's, and its split point does not exceed the slice length when
\* the dividend is below the product of the slice's divisors; every step of
\* recursive_divide lowers the work that is left, so that every branch
\* reaches divide after finitely many splits.
DecodeRecursionTerminates ==
    /\ []SplitShrinks
    /\ []((divPc = "run") => work # <<>>)
    /\ [][DivMeasure' < DivMeasure]_vars

\* 2399 below 2*3*...*7 went through three splits down to divide
DecodeRecursionWitness ==
    /\ divMode = "sequential"
    /\ divPc = "done"
    /\ divRoot = [dividend |-> 2399, start_index |-> 2, lo |-> 0, len |-> 6]
    /\ splits = 3
    /\ remainders = <<1, 2, 3, 4, 1, 3>>

\* C17: for every byte string, a valid code or not, and every element count
\* N >= 2, whenever decode returns Ok its output is a permutation of
\* {0..N-1}: N values, each below N, none twice.
DecodeOkIsPermutation ==
    (pc = "done" /\ elementCount >= 2 /\ decRes = "Ok") =>
        /\ Len(decOut) = elementCount
        /\ \A i \in 1 .. Len(decOut) : decOut[i] \in 0 .. elementCount - 1
        /\ \A i, j \in 1 .. Len(decOut) : decOut[i] = decOut[j] => i = j

\* the byte 2 is no code of two elements (2 >= 2!), yet decode returns Ok
\* with a permutation
DecodeOkIsPermutationWitness ==
    /\ pc = "done"
    /\ encoded = <<2>>
    /\ elementCount = 2
    /\ decRes = "Ok"
    /\ decOut = <<0, 1>>

=============================================================================
